---- MODULE Spec2Model ----
(***************************************************************************)
(* Model of src/agent.py: the course catalog, the selection set, the       *)
(* rolling conversation history, the last-mentioned-course slot, and the   *)
(* operations of ConversationManager and CourseSystem.                     *)
(*                                                                         *)
(* A Python str is a sequence of Unicode code points, so that "in"         *)
(* (substring), lower() and split() are computed and not assumed.          *)
(***************************************************************************)
EXTENDS Integers, Sequences, FiniteSets, TLC

VARIABLES
  selected_courses,       \* CourseSystem.selected_courses (a set of str)
  last_mentioned_course,  \* CourseSystem.last_mentioned_course
  history,                \* ConversationManager.history (a list of turns)
  max_history,            \* ConversationManager.max_history
  appended,               \* history variable of SpecHistory: the turns passed to
                          \* add_message since construction
  call,                   \* the last call made on the objects, with its arguments
  result,                 \* what select_course / delete_course returned
  parsed,                 \* what parse_user_input returned
  raised,                 \* the exception the last call raised, "none" if it returned
  find_pool,              \* SpecFind: the pool find_similar_courses is called on
  found,                  \* SpecFind: the list find_similar_courses returned
  results,                \* what query_courses returned
  pc,                     \* SpecMain: the position of main() in its loop
  turn                    \* SpecMain: history variable of the turn in progress

\* the variables that the calls on a CourseSystem leave alone
other_vars == <<find_pool, found, results, pc, turn>>

vars == <<selected_courses, last_mentioned_course, history, max_history,
          appended, call, result, parsed, raised, find_pool, found, results, pc,
          turn>>

----------------------------------------------------------------------------
(* Python values *)

\* Python's None where a str is expected: no str holds a negative code point.
None == <<-1>>

\* str.lower() on one code point: the ASCII capitals (the only cased
\* characters among the inputs drawn below).
lower_char(c) == IF c \in 65..90 THEN c + 32 ELSE c

\* str.lower()
lower(s) == [i \in 1..Len(s) |-> lower_char(s[i])]

\* the code points str.split() treats as whitespace
is_space(c) ==
  c \in {9, 10, 11, 12, 13, 28, 29, 30, 31, 32, 133, 160, 5760, 8232, 8233,
         8239, 8287, 12288} \cup (8192..8202)

\* index of the first whitespace code point of s, Len(s)+1 if there is none
first_space(s) ==
  IF \E i \in 1..Len(s) : is_space(s[i])
  THEN CHOOSE i \in 1..Len(s) :
         is_space(s[i]) /\ \A j \in 1..(i - 1) : ~is_space(s[j])
  ELSE Len(s) + 1

\* str.split() with no argument: the maximal runs of non-whitespace
RECURSIVE split(_)
split(s) ==
  IF s = <<>> THEN <<>>
  ELSE IF is_space(Head(s)) THEN split(Tail(s))
  ELSE LET n == first_space(s)
       IN  <<SubSeq(s, 1, n - 1)>> \o split(SubSeq(s, n, Len(s)))

\* a matches b when its characters occur in b in order, gaps allowed
RECURSIVE str_in_subsequence(_, _)
str_in_subsequence(a, b) ==
  IF a = <<>> THEN TRUE
  ELSE IF b = <<>> THEN FALSE
  ELSE IF Head(a) = Head(b) THEN str_in_subsequence(Tail(a), Tail(b))
  ELSE str_in_subsequence(a, Tail(b))

\* a in b, for two str
str_in(a, b) ==
  \E i \in 0..(Len(b) - Len(a)) : \A j \in 1..Len(a) : b[i + j] = a[j]

\* x in xs, for a list xs
list_in(x, xs) == \E i \in DOMAIN xs : xs[i] = x

\* the orders in which Python may iterate over the set S: str hashes are
\* randomised per process, so every order is possible
iteration_orders(S) ==
  {o \in [1..Cardinality(S) -> S] : \A i, j \in DOMAIN o : o[i] = o[j] => i = j}

\* delete_course iterates over self.selected_courses only in the loop of
\* find_similar_courses, which it reaches when course_name is no member
orders_iterated(selected, course_name) ==
  IF course_name \in selected THEN {<<>>} ELSE iteration_orders(selected)

----------------------------------------------------------------------------
(* CourseSystem.__init__: the catalog, in dict insertion order *)

courses ==
  <<
    \* agent.py:67
    [name |-> <<39640, 31561, 25968, 23398>>,
     type |-> <<24517, 20462>>,
     tags |-> <<<<29702, 31185>>, <<22522, 30784, 35838>>>>],
    \* agent.py:68
    [name |-> <<32447, 24615, 20195, 25968>>,
     type |-> <<24517, 20462>>,
     tags |-> <<<<29702, 31185>>, <<22522, 30784, 35838>>>>],
    \* agent.py:69
    [name |-> <<25968, 25454, 32467, 26500, 19982, 31639, 27861>>,
     type |-> <<24517, 20462>>,
     tags |-> <<<<32534, 31243>>, <<19987, 19994, 26680, 24515>>>>],
    \* agent.py:70
    [name |-> <<35745, 31639, 26426, 32593, 32476>>,
     type |-> <<24517, 20462>>,
     tags |-> <<<<19987, 19994, 26680, 24515>>, <<32593, 32476>>>>],
    \* agent.py:71
    [name |-> <<25805, 20316, 31995, 32479>>,
     type |-> <<24517, 20462>>,
     tags |-> <<<<19987, 19994, 26680, 24515>>, <<31995, 32479>>>>],
    \* agent.py:72
    [name |-> <<27010, 29575, 35770, 19982, 25968, 29702, 32479, 35745>>,
     type |-> <<24517, 20462>>,
     tags |-> <<<<29702, 31185>>, <<22522, 30784, 35838>>>>],
    \* agent.py:73
    [name |-> <<20449, 21495, 19982, 31995, 32479>>,
     type |-> <<24517, 20462>>,
     tags |-> <<<<19987, 19994, 22522, 30784>>, <<36890, 20449>>>>],
    \* agent.py:74
    [name |-> <<25968, 23383, 20449, 21495, 22788, 29702>>,
     type |-> <<24517, 20462>>,
     tags |-> <<<<19987, 19994, 26680, 24515>>, <<36890, 20449>>>>],
    \* agent.py:75
    [name |-> <<36890, 20449, 21407, 29702>>,
     type |-> <<24517, 20462>>,
     tags |-> <<<<19987, 19994, 26680, 24515>>, <<36890, 20449>>>>],
    \* agent.py:76
    [name |-> <<30005, 30913, 22330, 19982, 30005, 30913, 27874>>,
     type |-> <<24517, 20462>>,
     tags |-> <<<<19987, 19994, 22522, 30784>>, <<36890, 20449>>>>],
    \* agent.py:77
    [name |-> <<24494, 27874, 25216, 26415, 19982, 22825, 32447>>,
     type |-> <<24517, 20462>>,
     tags |-> <<<<19987, 19994, 26680, 24515>>, <<36890, 20449>>>>],
    \* agent.py:78
    [name |-> <<20154, 24037, 26234, 33021, 23548, 35770>>,
     type |-> <<36873, 20462>>,
     tags |-> <<<<19987, 19994, 26041, 21521>>, <<65, 73>>>>],
    \* agent.py:79
    [name |-> <<20113, 35745, 31639, 25216, 26415>>,
     type |-> <<36873, 20462>>,
     tags |-> <<<<19987, 19994, 26041, 21521>>, <<20113, 35745, 31639>>>>],
    \* agent.py:80
    [name |-> <<22823, 25968, 25454, 22788, 29702>>,
     type |-> <<36873, 20462>>,
     tags |-> <<<<19987, 19994, 26041, 21521>>, <<25968, 25454>>>>],
    \* agent.py:81
    [name |-> <<29616, 20195, 20132, 25442, 25216, 26415>>,
     type |-> <<24517, 20462>>,
     tags |-> <<<<19987, 19994, 26680, 24515>>, <<36890, 20449>>>>],
    \* agent.py:82
    [name |-> <<20809, 32420, 36890, 20449>>,
     type |-> <<24517, 20462>>,
     tags |-> <<<<19987, 19994, 26680, 24515>>, <<36890, 20449>>>>],
    \* agent.py:83
    [name |-> <<31227, 21160, 36890, 20449>>,
     type |-> <<24517, 20462>>,
     tags |-> <<<<19987, 19994, 26680, 24515>>, <<36890, 20449>>>>],
    \* agent.py:84
    [name |-> <<21355, 26143, 36890, 20449>>,
     type |-> <<36873, 20462>>,
     tags |-> <<<<19987, 19994, 26041, 21521>>, <<36890, 20449>>>>],
    \* agent.py:85
    [name |-> <<26080, 32447, 32593, 32476>>,
     type |-> <<36873, 20462>>,
     tags |-> <<<<19987, 19994, 26041, 21521>>, <<36890, 20449>>>>],
    \* agent.py:86
    [name |-> <<36890, 20449, 32593, 23433, 20840>>,
     type |-> <<36873, 20462>>,
     tags |-> <<<<19987, 19994, 26041, 21521>>, <<23433, 20840>>>>],
    \* agent.py:87
    [name |-> <<31227, 21160, 24212, 29992, 24320, 21457>>,
     type |-> <<36873, 20462>>,
     tags |-> <<<<32534, 31243>>, <<31227, 21160, 24320, 21457>>>>],
    \* agent.py:88
    [name |-> <<20449, 24687, 23433, 20840>>,
     type |-> <<36873, 20462>>,
     tags |-> <<<<19987, 19994, 26041, 21521>>, <<23433, 20840>>>>],
    \* agent.py:89
    [name |-> <<20449, 24687, 23433, 20840, 22522, 30784>>,
     type |-> <<24517, 20462>>,
     tags |-> <<<<19987, 19994, 26680, 24515>>, <<23433, 20840>>>>],
    \* agent.py:90
    [name |-> <<23494, 30721, 23398>>,
     type |-> <<24517, 20462>>,
     tags |-> <<<<19987, 19994, 26680, 24515>>, <<23433, 20840>>>>],
    \* agent.py:91
    [name |-> <<32593, 32476, 23433, 20840, 25216, 26415>>,
     type |-> <<24517, 20462>>,
     tags |-> <<<<19987, 19994, 26680, 24515>>, <<23433, 20840>>>>],
    \* agent.py:92
    [name |-> <<31995, 32479, 23433, 20840>>,
     type |-> <<24517, 20462>>,
     tags |-> <<<<19987, 19994, 26680, 24515>>, <<23433, 20840>>>>],
    \* agent.py:93
    [name |-> <<24212, 29992, 23433, 20840>>,
     type |-> <<24517, 20462>>,
     tags |-> <<<<19987, 19994, 26680, 24515>>, <<23433, 20840>>>>],
    \* agent.py:94
    [name |-> <<32593, 32476, 25915, 38450, 25216, 26415>>,
     type |-> <<24517, 20462>>,
     tags |-> <<<<19987, 19994, 26680, 24515>>, <<23433, 20840>>>>],
    \* agent.py:95
    [name |-> <<32593, 32476, 23433, 20840, 27861, 24459, 27861, 35268>>,
     type |-> <<36873, 20462>>,
     tags |-> <<<<19987, 19994, 26041, 21521>>, <<27861, 24459>>>>],
    \* agent.py:96
    [name |-> <<20113, 35745, 31639, 23433, 20840>>,
     type |-> <<36873, 20462>>,
     tags |-> <<<<19987, 19994, 26041, 21521>>, <<20113, 35745, 31639>>, <<23433, 20840>>>>],
    \* agent.py:97
    [name |-> <<20307, 32946>>,
     type |-> <<36873, 20462>>,
     tags |-> <<<<36816, 21160>>>>]
  >>

\* list(self.courses.keys()), in dict order
course_keys == [i \in DOMAIN courses |-> courses[i].name]

\* name in self.courses
in_courses(course_name) == list_in(course_name, course_keys)

----------------------------------------------------------------------------
(* CourseSystem.find_similar_courses, with the pool it scans as a list in  *)
(* the pool's iteration order                                              *)

\* a name that matches nothing is returned itself
find_similar_courses_echo(course_name, pool) ==
  IF list_in(course_name, pool) THEN <<course_name>>
  ELSE LET search_term == lower(course_name)
           keywords == split(search_term)
           similar(course) ==
             LET course_lower == lower(course)
             IN  \/ str_in(search_term, course_lower)
                 \/ str_in(course_lower, search_term)
                 \/ \E k \in DOMAIN keywords : str_in(keywords[k], course_lower)
       IN  IF SelectSeq(pool, similar) = <<>> THEN <<course_name>>
           ELSE SelectSeq(pool, similar)

\* the scan runs also for a name that is a member of the pool
find_similar_courses_no_exact(course_name, pool) ==
  LET search_term == lower(course_name)
      keywords == split(search_term)
      similar(course) ==
        LET course_lower == lower(course)
        IN  \/ str_in(search_term, course_lower)
            \/ str_in(course_lower, search_term)
            \/ \E k \in DOMAIN keywords : str_in(keywords[k], course_lower)
  IN  SelectSeq(pool, similar)

\* the scan compares the pool members as they are written, not lowercased
find_similar_courses_case_sensitive(course_name, pool) ==
  IF list_in(course_name, pool) THEN <<course_name>>
  ELSE LET search_term == lower(course_name)
           keywords == split(search_term)
           similar(course) ==
             \/ str_in(search_term, course)
             \/ str_in(course, search_term)
             \/ \E k \in DOMAIN keywords : str_in(keywords[k], course)
       IN  SelectSeq(pool, similar)

find_similar_courses(course_name, pool) ==
  IF list_in(course_name, pool) THEN <<course_name>>
  ELSE LET search_term == lower(course_name)
           keywords == split(search_term)
           similar(course) ==
             LET course_lower == lower(course)
             IN  \/ str_in(search_term, course_lower)
                 \/ str_in(course_lower, search_term)
                 \/ \E k \in DOMAIN keywords : str_in(keywords[k], course_lower)
       IN  SelectSeq(pool, similar)

----------------------------------------------------------------------------
(* OperationResult: the dict select_course and delete_course return.  A    *)
(* message is the f-string's template and the values it interpolates.      *)

Msg(template, course, listed) ==
  [template |-> template, course |-> course, listed |-> listed]

empty_result ==
  [success |-> FALSE, message |-> Msg("", None, <<>>), similar_courses |-> <<>>,
   needs_confirmation |-> FALSE, course_to_confirm |-> None]

no_result == [empty_result EXCEPT !.message = Msg("no call", None, <<>>)]

\* the first match is offered for confirmation however many there are
disambiguate_first_match(course_name, similar_courses, not_found, confirm, many) ==
  IF Len(similar_courses) = 0
  THEN [empty_result EXCEPT !.message = Msg(not_found, course_name, <<>>)]
  ELSE [empty_result EXCEPT
          !.needs_confirmation = TRUE,
          !.course_to_confirm = similar_courses[1],
          !.message = Msg(confirm, similar_courses[1], <<>>)]

\* lines 167-181 of select_course and 210-224 of delete_course: the
\* three-way branch on the list find_similar_courses returned
disambiguate(course_name, similar_courses, not_found, confirm, many) ==
  IF Len(similar_courses) = 0
  THEN [empty_result EXCEPT !.message = Msg(not_found, course_name, <<>>)]
  ELSE IF Len(similar_courses) = 1
  THEN [empty_result EXCEPT
          !.needs_confirmation = TRUE,
          !.course_to_confirm = similar_courses[1],
          !.message = Msg(confirm, similar_courses[1], <<>>)]
  ELSE [empty_result EXCEPT
          !.similar_courses = similar_courses,
          !.message = Msg(many, None, similar_courses)]

\* select_course, lines 156-162: course_name is a catalog key and force is set
select_direct(selected, course_name) ==
  IF course_name \in selected
  THEN [selected |-> selected,
        result |-> [empty_result EXCEPT
                      !.message = Msg("already selected", course_name, <<>>)]]
  ELSE [selected |-> selected \cup {course_name},
        result |-> [empty_result EXCEPT
                      !.success = TRUE,
                      !.message = Msg("selected", course_name, <<>>)]]

\* select_course, lines 164-181: the search over the catalog keys
select_fuzzy(selected, course_name) ==
  [selected |-> selected,
   result |-> disambiguate(course_name,
                           find_similar_courses(course_name, course_keys),
                           "select: not found", "select: did you mean",
                           "select: found several")]

\* the forced call adds any name, with no look at the catalog
select_course_no_catalog_check(selected, course_name, force) ==
  IF force
  THEN select_direct(selected, course_name)
  ELSE select_fuzzy(selected, course_name)

\* the forced call does not look whether the course is selected already
select_course_reselect(selected, course_name, force) ==
  IF force /\ in_courses(course_name)
  THEN select_direct(selected \ {course_name}, course_name)
  ELSE select_fuzzy(selected, course_name)

\* a single match is selected at once, without the confirmation
select_course_auto_select(selected, course_name, force) ==
  IF force /\ in_courses(course_name)
  THEN select_direct(selected, course_name)
  ELSE IF Len(find_similar_courses(course_name, course_keys)) = 1
  THEN select_direct(selected, find_similar_courses(course_name, course_keys)[1])
  ELSE select_fuzzy(selected, course_name)

\* the forced call resolves a name that is no catalog key to its single match
select_course_force_fuzzy(selected, course_name, force) ==
  IF force /\ ~in_courses(course_name)
        /\ Len(find_similar_courses(course_name, course_keys)) = 1
  THEN select_direct(selected, find_similar_courses(course_name, course_keys)[1])
  ELSE IF force /\ in_courses(course_name)
  THEN select_direct(selected, course_name)
  ELSE select_fuzzy(selected, course_name)

\* a call without force reports at once that a selected course is selected
select_course_early_refusal(selected, course_name, force) ==
  IF in_courses(course_name) /\ (force \/ course_name \in selected)
  THEN select_direct(selected, course_name)
  ELSE select_fuzzy(selected, course_name)

\* CourseSystem.select_course: the new selection set and the returned dict
select_course(selected, course_name, force) ==
  IF force /\ in_courses(course_name)
  THEN select_direct(selected, course_name)
  ELSE select_fuzzy(selected, course_name)

\* delete_course, lines 195-198: course_name is selected and force is set
delete_direct(selected, course_name) ==
  [selected |-> selected \ {course_name},
   result |-> [empty_result EXCEPT
                 !.success = TRUE,
                 !.message = Msg("deleted", course_name, <<>>)]]

\* delete_course, lines 200-224: the confirmation of an exact member, else
\* the search over the selected courses, iterated in the given order
delete_fuzzy(selected, order, course_name) ==
  IF course_name \in selected
  THEN [selected |-> selected,
        result |-> [empty_result EXCEPT
                      !.needs_confirmation = TRUE,
                      !.course_to_confirm = course_name,
                      !.message = Msg("delete: confirm", course_name, <<>>)]]
  ELSE [selected |-> selected,
        result |-> disambiguate(course_name,
                                find_similar_courses(course_name, order),
                                "delete: not found", "delete: did you mean",
                                "delete: found several")]

\* the forced call reports the removal and leaves the set as it was
delete_course_no_remove(selected, order, course_name, force) ==
  IF force /\ course_name \in selected
  THEN [selected |-> selected,
        result |-> delete_direct(selected, course_name).result]
  ELSE delete_fuzzy(selected, order, course_name)

\* the forced call resolves a name that is not selected to its single match
delete_course_force_fuzzy(selected, order, course_name, force) ==
  IF force /\ course_name \notin selected
        /\ Len(find_similar_courses(course_name, order)) = 1
  THEN delete_direct(selected, find_similar_courses(course_name, order)[1])
  ELSE IF force /\ course_name \in selected
  THEN delete_direct(selected, course_name)
  ELSE delete_fuzzy(selected, order, course_name)

\* the call without force removes a selected course at once
delete_course_unforced_removes(selected, order, course_name, force) ==
  IF course_name \in selected
  THEN delete_direct(selected, course_name)
  ELSE delete_fuzzy(selected, order, course_name)

\* CourseSystem.delete_course; order is the order in which the call
\* iterates over self.selected_courses (<<>> when it does not)
delete_course(selected, order, course_name, force) ==
  IF force /\ course_name \in selected
  THEN delete_direct(selected, course_name)
  ELSE delete_fuzzy(selected, order, course_name)

----------------------------------------------------------------------------
(* ConversationManager *)

\* the default of max_history in ConversationManager.__init__
DefaultMaxHistory == 3

Turn(role, content) == [role |-> role, content |-> content]

\* on overflow the newest turn is dropped: pop() in place of pop(0)
add_message_pop_last(h, cap, role, content) ==
  LET h1 == Append(h, Turn(role, content))
  IN  IF Len(h1) > cap THEN SubSeq(h1, 1, Len(h1) - 1) ELSE h1

\* ConversationManager.add_message: the new history list
add_message(h, cap, role, content) ==
  LET h1 == Append(h, Turn(role, content))
  IN  IF Len(h1) > cap THEN Tail(h1) ELSE h1

----------------------------------------------------------------------------
(* CourseSystem.parse_user_input.  The completion call either raises (and  *)
(* get_completion re-raises it as APIError) or returns a text; json.loads  *)
(* of the text either raises JSONDecodeError or returns the document, an   *)
(* object being a record over the keys it holds.                           *)

json_loads(response) ==
  IF response.json
  THEN [ok |-> TRUE, shape |-> response.shape, value |-> response.value]
  ELSE [ok |-> FALSE, shape |-> "none", value |-> <<>>]

no_intent == [returned |-> FALSE]

\* bool(v) for a str or None
truthy(v) == v # None /\ v # <<>>

\* parse_user_input left by an exception: the student turn stays in the
\* history, nothing is returned
parse_raise(h1, last_mentioned, exception) ==
  [history |-> h1, last_mentioned_course |-> last_mentioned,
   parsed |-> no_intent, raised |-> exception]

\* only a catalog key is remembered as the last mentioned course
parse_document_catalog_only(h1, cap, last_mentioned, loaded) ==
  LET parsed_response == loaded.value
  IN  IF loaded.shape # "object" THEN parse_raise(h1, last_mentioned, "TypeError")
      ELSE IF "context" \notin DOMAIN parsed_response
      THEN parse_raise(h1, last_mentioned, "KeyError: context")
      ELSE IF "message" \notin DOMAIN parsed_response.context
      THEN parse_raise(h1, last_mentioned, "KeyError: message")
      ELSE [history |-> add_message(h1, cap, "assistant",
                                    parsed_response.context.message),
            last_mentioned_course |->
              IF "course_name" \in DOMAIN parsed_response
                 /\ in_courses(parsed_response.course_name)
              THEN parsed_response.course_name
              ELSE last_mentioned,
            parsed |-> parsed_response,
            raised |-> "none"]

\* parse_user_input, lines 273-281, on the document json.loads returned
parse_document(h1, cap, last_mentioned, loaded) ==
  LET parsed_response == loaded.value
  IN  IF loaded.shape # "object" THEN parse_raise(h1, last_mentioned, "TypeError")
      ELSE IF "context" \notin DOMAIN parsed_response
      THEN parse_raise(h1, last_mentioned, "KeyError: context")
      ELSE IF "message" \notin DOMAIN parsed_response.context
      THEN parse_raise(h1, last_mentioned, "KeyError: message")
      ELSE [history |-> add_message(h1, cap, "assistant",
                                    parsed_response.context.message),
            last_mentioned_course |->
              IF "course_name" \in DOMAIN parsed_response
                 /\ truthy(parsed_response.course_name)
              THEN parsed_response.course_name
              ELSE last_mentioned,
            parsed |-> parsed_response,
            raised |-> "none"]

\* a response that does not parse also clears the last mentioned course
parse_user_input_reset(h, cap, last_mentioned, user_input, response) ==
  IF response.kind = "raise"
  THEN parse_raise(add_message(h, cap, "user", user_input), last_mentioned,
                   "APIError: completion failed")
  ELSE IF ~json_loads(response).ok
  THEN parse_raise(add_message(h, cap, "user", user_input), None,
                   "APIError: cannot parse response")
  ELSE parse_document(add_message(h, cap, "user", user_input), cap,
                      last_mentioned, json_loads(response))

\* a parse that raises takes the student turn out of the history again
parse_user_input_rollback(h, cap, last_mentioned, user_input, response) ==
  IF response.kind = "raise"
  THEN parse_raise(h, last_mentioned, "APIError: completion failed")
  ELSE IF ~json_loads(response).ok
  THEN parse_raise(h, last_mentioned, "APIError: cannot parse response")
  ELSE parse_document(add_message(h, cap, "user", user_input), cap,
                      last_mentioned, json_loads(response))

\* CourseSystem.parse_user_input: the history, the slot, the returned dict
\* and the exception raised
parse_user_input(h, cap, last_mentioned, user_input, response) ==
  IF response.kind = "raise"
  THEN parse_raise(add_message(h, cap, "user", user_input), last_mentioned,
                   "APIError: completion failed")
  ELSE IF ~json_loads(response).ok
  THEN parse_raise(add_message(h, cap, "user", user_input), last_mentioned,
                   "APIError: cannot parse response")
  ELSE parse_document(add_message(h, cap, "user", user_input), cap,
                      last_mentioned, json_loads(response))

----------------------------------------------------------------------------
(* CourseSystem.query_courses.  filters and interests are None or a list   *)
(* of str; list.sort(reverse=True) is stable: equal keys keep their order. *)

\* None where a list of str is expected
NoList == <<None>>

\* bool(v) for a list of str or None
truthy_list(v) == v # NoList /\ v # <<>>

\* len(set(tags) & set(interests))
interest_key(course, interests) ==
  Cardinality({course.tags[i] : i \in DOMAIN course.tags}
              \cap {interests[i] : i \in DOMAIN interests})

\* equal keys come out in the reverse of their order
sort_by_interest_reversed_ties(xs, interests) ==
  LET RECURSIVE sorted(_)
      sorted(n) ==
        IF n = 0 THEN <<>>
        ELSE LET before == sorted(n - 1)
                 k == Cardinality({i \in DOMAIN before :
                        interest_key(before[i], interests)
                          > interest_key(xs[n], interests)})
             IN  SubSeq(before, 1, k) \o <<xs[n]>>
                   \o SubSeq(before, k + 1, Len(before))
  IN  sorted(Len(xs))

\* results.sort(key=..., reverse=True): each element goes behind the ones
\* whose key is greater or equal
sort_by_interest(xs, interests) ==
  LET RECURSIVE sorted(_)
      sorted(n) ==
        IF n = 0 THEN <<>>
        ELSE LET before == sorted(n - 1)
                 k == Cardinality({i \in DOMAIN before :
                        interest_key(before[i], interests)
                          >= interest_key(xs[n], interests)})
             IN  SubSeq(before, 1, k) \o <<xs[n]>>
                   \o SubSeq(before, k + 1, Len(before))
  IN  sorted(Len(xs))

query_courses(filters, interests) ==
  LET kept(info) == ~truthy_list(filters) \/ list_in(info.type, filters)
      unsorted == SelectSeq(courses, kept)
  IN  IF truthy_list(interests) THEN sort_by_interest(unsorted, interests)
      ELSE unsorted

----------------------------------------------------------------------------
(* The inputs the operations are called with *)

GaoDengShuXue == courses[1].name        \* agent.py:67, "advanced mathematics"
XinXiAnQuan == courses[22].name         \* agent.py:88, "information security"
XinXiAnQuanJiChu == courses[23].name    \* agent.py:89, the same plus "basics"

\* the first and third characters of courses[1].name: the abbreviation of
\* scenario 2, no contiguous part of any catalog name
GaoShu == <<39640, 25968>>
\* the first two characters of courses[22].name and of courses[23].name
XinXi == <<20449, 24687>>
\* courses[1].name followed by a capital A
GaoDengShuXueA == <<39640, 31561, 25968, 23398, 65>>
\* courses[31].name, a space, the first two characters of courses[1].name
TiYuGaoDeng == <<20307, 32946, 32, 39640, 31561>>
\* "course not selected", the name of scenario 4: matches nothing
WeiXuanKeCheng == <<26410, 36873, 35838, 31243>>

CatalogNames == {GaoDengShuXue, XinXiAnQuan, XinXiAnQuanJiChu}

Names ==
  CatalogNames \cup {GaoShu, XinXi, GaoDengShuXueA, TiYuGaoDeng, WeiXuanKeCheng}

UserInputs == {<<120>>}

MessageOk == <<111, 107>>

Object(doc) == [kind |-> "text", json |-> TRUE, shape |-> "object", value |-> doc]

\* the texts the completion call returns, and its failure
NotJson == [kind |-> "text", json |-> FALSE]

Responses ==
  { [kind |-> "raise"],
    NotJson,
    [kind |-> "text", json |-> TRUE, shape |-> "array", value |-> <<>>],
    Object([action |-> "select", course_name |-> GaoDengShuXue,
            context |-> [message |-> MessageOk]]),
    Object([action |-> "delete", course_name |-> GaoShu,
            context |-> [message |-> MessageOk]]),
    Object([action |-> "query", course_name |-> None,
            context |-> [message |-> MessageOk]]),
    Object([action |-> "select", course_name |-> <<>>,
            context |-> [message |-> MessageOk]]),
    Object([action |-> "show_selected", context |-> [message |-> MessageOk]]),
    Object([action |-> "select", course_name |-> XinXi]),
    Object([action |-> "select", course_name |-> XinXi,
            context |-> [is_certain |-> TRUE]]) }

----------------------------------------------------------------------------
(* The state machine: one action per call on the CourseSystem *)

Call(op, course_name, force, order, pre, user_input, response) ==
  [op |-> op, course_name |-> course_name, force |-> force, order |-> order,
   pre |-> pre, user_input |-> user_input, response |-> response]

no_response == [kind |-> "none"]

\* no turn of main() in progress
no_turn ==
  [pre |-> {}, user_input |-> None, response |-> no_response,
   prompt |-> "none", offered |-> <<>>, answer |-> None]

\* the variables of the other specifications, where they play no part
others_idle ==
  /\ find_pool = <<>>
  /\ found = <<>>
  /\ results = <<>>
  /\ pc = "none"
  /\ turn = no_turn

Init ==
  /\ selected_courses = {}
  /\ last_mentioned_course = None
  /\ history = <<>>
  /\ max_history = DefaultMaxHistory
  /\ appended = <<>>
  /\ call = Call("init", None, FALSE, <<>>, {}, None, no_response)
  /\ result = no_result
  /\ parsed = no_intent
  /\ raised = "none"
  /\ others_idle

Select(course_name, force) ==
  \E out \in {select_course(selected_courses, course_name, force)} :
      /\ selected_courses' = out.selected
      /\ result' = out.result
      /\ call' = Call("select", course_name, force, course_keys,
                      selected_courses, None, no_response)
      /\ parsed' = no_intent
      /\ raised' = "none"
      /\ UNCHANGED <<last_mentioned_course, history, max_history, appended>>
      /\ UNCHANGED other_vars

Delete(course_name, force) ==
  \E order \in orders_iterated(selected_courses, course_name) :
    \E out \in {delete_course(selected_courses, order, course_name, force)} :
        /\ selected_courses' = out.selected
        /\ result' = out.result
        /\ call' = Call("delete", course_name, force, order,
                        selected_courses, None, no_response)
        /\ parsed' = no_intent
        /\ raised' = "none"
        /\ UNCHANGED <<last_mentioned_course, history, max_history, appended>>
        /\ UNCHANGED other_vars

Parse(user_input, response) ==
  \E out \in {parse_user_input(history, max_history, last_mentioned_course,
                                 user_input, response)} :
      /\ history' = out.history
      /\ last_mentioned_course' = out.last_mentioned_course
      /\ parsed' = out.parsed
      /\ raised' = out.raised
      /\ call' = Call("parse", None, FALSE, <<>>, selected_courses,
                      user_input, response)
      /\ result' = no_result
      /\ UNCHANGED <<selected_courses, max_history, appended>>
      /\ UNCHANGED other_vars

Next ==
  \/ \E course_name \in Names, force \in BOOLEAN : Select(course_name, force)
  \/ \E course_name \in Names, force \in BOOLEAN : Delete(course_name, force)
  \/ \E user_input \in UserInputs, response \in Responses :
       Parse(user_input, response)

Spec == Init /\ [][Next]_vars

----------------------------------------------------------------------------
(* The ConversationManager alone, constructed with any capacity up to      *)
(* MaxCapacity and driven by add_message                                   *)

MaxCapacity == 3
MaxAppends == 5

Roles == {"user", "assistant"}
Contents == UserInputs \cup {MessageOk}

InitHistory ==
  /\ selected_courses = {}
  /\ last_mentioned_course = None
  /\ history = <<>>
  /\ max_history \in 0..MaxCapacity
  /\ appended = <<>>
  /\ call = Call("init", None, FALSE, <<>>, {}, None, no_response)
  /\ result = no_result
  /\ parsed = no_intent
  /\ raised = "none"
  /\ others_idle

AddMessage(role, content) ==
  /\ Len(appended) < MaxAppends
  /\ history' = add_message(history, max_history, role, content)
  /\ appended' = Append(appended, Turn(role, content))
  /\ call' = Call("add_message", None, FALSE, <<>>, selected_courses,
                  content, no_response)
  /\ UNCHANGED <<selected_courses, last_mentioned_course, max_history,
                 result, parsed, raised>>
  /\ UNCHANGED other_vars

NextHistory == \E role \in Roles, content \in Contents : AddMessage(role, content)

SpecHistory == InitHistory /\ [][NextHistory]_vars

----------------------------------------------------------------------------
(* find_similar_courses alone, called on pools of up to MaxPool members    *)
(* in every iteration order                                                *)

MaxPool == 2

\* pool members: "ab", "AB", "a", "abc", "b c", "ba"
StrAb == <<97, 98>>
StrABupper == <<65, 66>>
StrA == <<97>>
StrAbc == <<97, 98, 99>>
StrBspaceC == <<98, 32, 99>>
StrBa == <<98, 97>>

FindMembers == {StrAb, StrABupper, StrA, StrAbc, StrBspaceC, StrBa}

\* queries: the members and "Ab", "x a", "x", " ", "", "c B"
StrAbMixed == <<65, 98>>
StrXspaceA == <<120, 32, 97>>
StrX == <<120>>
StrSpace == <<32>>
StrCspaceB == <<99, 32, 66>>

FindQueries ==
  FindMembers \cup {StrAbMixed, StrXspaceA, StrX, StrSpace, <<>>, StrCspaceB}

\* the lists of up to n distinct members of S
pools_up_to(S, n) ==
  UNION {iteration_orders(T) : T \in {U \in SUBSET S : Cardinality(U) <= n}}

InitFind ==
  /\ selected_courses = {}
  /\ last_mentioned_course = None
  /\ history = <<>>
  /\ max_history = DefaultMaxHistory
  /\ appended = <<>>
  /\ call = Call("init", None, FALSE, <<>>, {}, None, no_response)
  /\ result = no_result
  /\ parsed = no_intent
  /\ raised = "none"
  /\ find_pool \in pools_up_to(FindMembers, MaxPool)
  /\ found = <<>>
  /\ results = <<>>
  /\ pc = "none"
  /\ turn = no_turn

FindSimilar(course_name) ==
  /\ found' = find_similar_courses(course_name, find_pool)
  /\ call' = Call("find_similar_courses", course_name, FALSE, find_pool, {},
                  None, no_response)
  /\ UNCHANGED <<selected_courses, last_mentioned_course, history,
                 max_history, appended, result, parsed, raised, find_pool,
                 results, pc, turn>>

NextFind == \E course_name \in FindQueries : FindSimilar(course_name)

SpecFind == InitFind /\ [][NextFind]_vars

----------------------------------------------------------------------------
(* parse_user_input alone, called with two student texts *)

\* "x", "y"
ParseInputs == {<<120>>, <<121>>}

NextParse ==
  \E user_input \in ParseInputs, response \in Responses :
    Parse(user_input, response)

SpecParse == Init /\ [][NextParse]_vars

----------------------------------------------------------------------------
(* query_courses alone, called with filter lists over the two course types *)
(* and interest lists of up to MaxInterests tags                           *)

MaxInterests == 2

BiXiu == courses[1].type            \* agent.py:67, "required"
XuanXiu == courses[12].type         \* agent.py:78, "elective"
ShiXi == <<23454, 20064>>           \* no course has this type

FilterLists ==
  {NoList, <<>>, <<BiXiu>>, <<XuanXiu>>, <<BiXiu, XuanXiu>>, <<ShiXi>>}

LiKe == courses[1].tags[1]          \* agent.py:67, "science"
ZhuanYeHeXin == courses[3].tags[2]  \* agent.py:69, "core"
TongXin == courses[7].tags[2]       \* agent.py:73, "communication"
ZhuanYeFangXiang == courses[12].tags[1]   \* agent.py:78, "specialisation"
AnQuan == courses[20].tags[2]       \* agent.py:86, "security"
YiShu == <<33402, 26415>>           \* no course has this tag

InterestTags == {LiKe, ZhuanYeHeXin, TongXin, ZhuanYeFangXiang, AnQuan, YiShu}

InterestLists ==
  {NoList, <<>>, <<AnQuan, AnQuan>>} \cup pools_up_to(InterestTags, MaxInterests)

QueryCall(filters, interests) ==
  [op |-> "query_courses", filters |-> filters, interests |-> interests]

\* query_courses reads the catalog only: one call from the constructed system
Query(filters, interests) ==
  /\ call.op = "init"
  /\ results' = query_courses(filters, interests)
  /\ call' = QueryCall(filters, interests)
  /\ UNCHANGED <<selected_courses, last_mentioned_course, history,
                 max_history, appended, result, parsed, raised, find_pool,
                 found, pc, turn>>

NextQuery ==
  \E filters \in FilterLists, interests \in InterestLists :
    Query(filters, interests)

SpecQuery == Init /\ [][NextQuery]_vars

----------------------------------------------------------------------------
(* main(): the loop that reads a line, parses it, dispatches on the action *)
(* of the intent and asks for a confirmation or a choice.  pc is the       *)
(* position of the loop; turn holds the locals of the iteration: the       *)
(* selection set at its start, the line read, the completion, the prompt   *)
(* shown with the list offered, and the answer typed.                      *)

\* str.isdigit(): the ASCII and the Arabic-Indic digits and SUPERSCRIPT TWO
\* are digits; only the first two kinds are decimal
decimal_value(c) ==
  IF c \in 48..57 THEN c - 48
  ELSE IF c \in 1632..1641 THEN c - 1632
  ELSE -1

isdigit(s) ==
  /\ s # <<>>
  /\ \A i \in DOMAIN s : decimal_value(s[i]) >= 0 \/ s[i] = 178

\* int(s) for a str that isdigit() accepted: ok is FALSE for ValueError
int(s) ==
  LET RECURSIVE value(_)
      value(n) == IF n = 0 THEN 0 ELSE 10 * value(n - 1) + decimal_value(s[n])
  IN  IF \A i \in DOMAIN s : decimal_value(s[i]) >= 0
      THEN [ok |-> TRUE, value |-> value(Len(s))]
      ELSE [ok |-> FALSE, value |-> 0]

\* dict.get(key) of the parsed intent, for a str value and for a list value
get(d, key) == IF key \in DOMAIN d THEN d[key] ELSE None

get_list(d, key) == IF key \in DOMAIN d THEN d[key] ELSE NoList

\* the classes of the exceptions raised in a turn, with their bases
exception_bases(exception) ==
  IF exception \in {"APIError: completion failed",
                    "APIError: cannot parse response"}
  THEN {"APIError", "Exception", "BaseException"}
  ELSE IF exception \in {"KeyError: context", "KeyError: message",
                         "KeyError: action"}
  THEN {"KeyError", "LookupError", "Exception", "BaseException"}
  ELSE IF exception = "TypeError"
  THEN {"TypeError", "Exception", "BaseException"}
  ELSE {"ValueError", "Exception", "BaseException"}

\* the handlers stop at APIError: any other exception leaves the loop
session_context_no_catch_all(exception) ==
  IF "CourseError" \in exception_bases(exception) THEN "course error"
  ELSE IF "APIError" \in exception_bases(exception) THEN "api error"
  ELSE "propagate"

\* CourseSystem.session_context: the except clause that takes the exception
session_context(exception) ==
  IF "CourseError" \in exception_bases(exception) THEN "course error"
  ELSE IF "APIError" \in exception_bases(exception) THEN "api error"
  ELSE IF "Exception" \in exception_bases(exception) THEN "system error"
  ELSE "propagate"

\* the exit keyword, line 331
TuiChu == <<36864, 20986>>

MainInputs == {<<120>>, TuiChu}

MainResponses ==
  { [kind |-> "raise"],
    NotJson,
    [kind |-> "text", json |-> TRUE, shape |-> "array", value |-> <<>>],
    Object([action |-> "select", course_name |-> GaoDengShuXue,
            context |-> [message |-> MessageOk]]),
    Object([action |-> "select", course_name |-> XinXi,
            context |-> [message |-> MessageOk]]),
    Object([action |-> "select", course_name |-> GaoShu,
            context |-> [message |-> MessageOk]]),
    Object([action |-> "select", context |-> [message |-> MessageOk]]),
    Object([action |-> "delete", course_name |-> XinXi,
            context |-> [message |-> MessageOk]]),
    Object([action |-> "delete", course_name |-> GaoDengShuXue,
            context |-> [message |-> MessageOk]]),
    Object([action |-> "delete", course_name |-> None,
            context |-> [message |-> MessageOk]]),
    Object([action |-> "query", context |-> [message |-> MessageOk]]),
    Object([action |-> "query", filters |-> <<ShiXi>>,
            context |-> [message |-> MessageOk]]),
    Object([action |-> "show_selected", context |-> [message |-> MessageOk]]),
    Object([action |-> "error", context |-> [message |-> MessageOk]]),
    Object([action |-> "select", course_name |-> GaoDengShuXue]),
    Object([context |-> [message |-> MessageOk]]) }

\* "y", "Y", "n"
Answers == {<<121>>, <<89>>, <<110>>}

\* "1", "2", "0", "40", "n", SUPERSCRIPT TWO, ARABIC-INDIC DIGIT ONE
Choices == {<<49>>, <<50>>, <<48>>, <<52, 48>>, <<110>>, <<178>>, <<1633>>}

InitMain ==
  /\ selected_courses = {}
  /\ last_mentioned_course = None
  /\ history = <<>>
  /\ max_history = DefaultMaxHistory
  /\ appended = <<>>
  /\ call = Call("init", None, FALSE, <<>>, {}, None, no_response)
  /\ result = no_result
  /\ parsed = no_intent
  /\ raised = "none"
  /\ find_pool = <<>>
  /\ found = <<>>
  /\ results = <<>>
  /\ pc = "input"
  /\ turn = no_turn

\* lines 330-334: a line is read; the exit keyword ends the loop
Input(user_input) ==
  /\ pc = "input"
  /\ pc' = IF user_input = TuiChu THEN "exited" ELSE "parse"
  /\ turn' = [no_turn EXCEPT !.pre = selected_courses,
                             !.user_input = user_input]
  /\ raised' = "none"
  /\ UNCHANGED <<selected_courses, last_mentioned_course, history,
                 max_history, appended, call, result, parsed, find_pool,
                 found, results>>

\* line 335: parse_user_input returns the intent or raises
ParseTurn(response) ==
  /\ pc = "parse"
  /\ \E out \in {parse_user_input(history, max_history, last_mentioned_course,
                                   turn.user_input, response)} :
       /\ history' = out.history
       /\ last_mentioned_course' = out.last_mentioned_course
       /\ parsed' = out.parsed
       /\ raised' = out.raised
       /\ pc' = IF out.raised = "none" THEN "dispatch" ELSE "except"
  /\ call' = Call("parse", None, FALSE, <<>>, selected_courses,
                  turn.user_input, response)
  /\ result' = no_result
  /\ turn' = [turn EXCEPT !.response = response]
  /\ UNCHANGED <<selected_courses, max_history, appended, find_pool, found,
                 results>>

\* lines 337-412 up to the first prompt: the branch of the action
Dispatch ==
  /\ pc = "dispatch"
  /\ UNCHANGED <<last_mentioned_course, history, max_history, appended,
                 parsed, find_pool, found>>
  /\ IF "action" \notin DOMAIN parsed
     THEN /\ raised' = "KeyError: action"
          /\ pc' = "except"
          /\ UNCHANGED <<selected_courses, call, result, results, turn>>
     ELSE
     /\ raised' = "none"
     /\ CASE parsed.action = "query" ->
               \E out \in {query_courses(get_list(parsed, "filters"),
                                         get_list(parsed, "interests"))} :
                 /\ results' = out
                 /\ call' = QueryCall(get_list(parsed, "filters"),
                                      get_list(parsed, "interests"))
                 /\ pc' = IF out # <<>> THEN "query_choice" ELSE "input"
                 /\ turn' = IF out # <<>>
                            THEN [turn EXCEPT
                                    !.prompt = "query: choice",
                                    !.offered = [i \in DOMAIN out |-> out[i].name]]
                            ELSE turn
                 /\ UNCHANGED <<selected_courses, result>>
          [] parsed.action = "select" /\ truthy(get(parsed, "course_name")) ->
               \E out \in {select_course(selected_courses,
                                         parsed.course_name, FALSE)} :
                 /\ selected_courses' = out.selected
                 /\ result' = out.result
                 /\ call' = Call("select", parsed.course_name, FALSE, <<>>,
                                 selected_courses, None, no_response)
                 /\ pc' = IF out.result.needs_confirmation
                          THEN "select_confirm"
                          ELSE IF out.result.similar_courses # <<>>
                          THEN "select_choice" ELSE "input"
                 /\ turn' = IF out.result.needs_confirmation
                            THEN [turn EXCEPT
                                    !.prompt = "select: confirm",
                                    !.offered = <<out.result.course_to_confirm>>]
                            ELSE IF out.result.similar_courses # <<>>
                            THEN [turn EXCEPT
                                    !.prompt = "select: choice",
                                    !.offered = out.result.similar_courses]
                            ELSE turn
                 /\ UNCHANGED results
          [] parsed.action = "delete" /\ truthy(get(parsed, "course_name")) ->
               \E order \in orders_iterated(selected_courses,
                                            parsed.course_name) :
               \E out \in {delete_course(selected_courses, order,
                                         parsed.course_name, FALSE)} :
                 /\ selected_courses' = out.selected
                 /\ result' = out.result
                 /\ call' = Call("delete", parsed.course_name, FALSE, order,
                                 selected_courses, None, no_response)
                 /\ pc' = IF out.result.needs_confirmation
                          THEN "delete_confirm"
                          ELSE IF out.result.similar_courses # <<>>
                          THEN "delete_choice" ELSE "input"
                 /\ turn' = IF out.result.needs_confirmation
                            THEN [turn EXCEPT
                                    !.prompt = "delete: confirm",
                                    !.offered = <<out.result.course_to_confirm>>]
                            ELSE IF out.result.similar_courses # <<>>
                            THEN [turn EXCEPT
                                    !.prompt = "delete: choice",
                                    !.offered = out.result.similar_courses]
                            ELSE turn
                 /\ UNCHANGED results
          [] OTHER ->
               /\ pc' = "input"
               /\ UNCHANGED <<selected_courses, call, result, results, turn>>

\* the call made with force=True for the course the user accepted
FollowUp(op, course_name) ==
  IF op = "select"
  THEN \E out \in {select_course(selected_courses, course_name, TRUE)} :
         /\ selected_courses' = out.selected
         /\ result' = out.result
         /\ call' = Call("select", course_name, TRUE, <<>>, selected_courses,
                         None, no_response)
  ELSE \E order \in orders_iterated(selected_courses, course_name) :
       \E out \in {delete_course(selected_courses, order, course_name, TRUE)} :
         /\ selected_courses' = out.selected
         /\ result' = out.result
         /\ call' = Call("delete", course_name, TRUE, order, selected_courses,
                         None, no_response)

\* lines 368-372 and 389-393: the answer to "confirm (y/n)"
Confirm(confirm) ==
  /\ pc \in {"select_confirm", "delete_confirm"}
  /\ turn' = [turn EXCEPT !.answer = confirm]
  /\ pc' = "input"
  /\ IF lower(confirm) = <<121>>
     THEN FollowUp(IF pc = "select_confirm" THEN "select" ELSE "delete",
                   result.course_to_confirm)
     ELSE UNCHANGED <<selected_courses, result, call>>
  /\ UNCHANGED <<last_mentioned_course, history, max_history, appended,
                 parsed, raised, find_pool, found, results>>

\* lines 355-359, 374-379 and 395-400: the answer to "enter the number"
Choose(choice) ==
  /\ pc \in {"query_choice", "select_choice", "delete_choice"}
  /\ turn' = [turn EXCEPT !.answer = choice]
  /\ UNCHANGED <<last_mentioned_course, history, max_history, appended,
                 parsed, find_pool, found, results>>
  /\ LET listed == IF pc = "query_choice"
                   THEN [i \in DOMAIN results |-> results[i].name]
                   ELSE result.similar_courses
     IN  IF ~isdigit(choice)
         THEN /\ pc' = "input"
              /\ UNCHANGED <<selected_courses, result, call, raised>>
         ELSE IF ~int(choice).ok
         THEN /\ pc' = "except"
              /\ raised' = "ValueError"
              /\ UNCHANGED <<selected_courses, result, call>>
         ELSE IF 1 <= int(choice).value /\ int(choice).value <= Len(listed)
         THEN /\ pc' = "input"
              /\ raised' = "none"
              /\ FollowUp(IF pc = "delete_choice" THEN "delete" ELSE "select",
                          listed[int(choice).value])
         ELSE /\ pc' = "input"
              /\ UNCHANGED <<selected_courses, result, call, raised>>

\* lines 111-116: the exception leaves the with block through its handler
Handle ==
  /\ pc = "except"
  /\ pc' = IF session_context(raised) = "propagate" THEN "crashed" ELSE "input"
  /\ UNCHANGED <<selected_courses, last_mentioned_course, history,
                 max_history, appended, call, result, parsed, raised,
                 find_pool, found, results, turn>>

NextMain ==
  \/ \E user_input \in MainInputs : Input(user_input)
  \/ \E response \in MainResponses : ParseTurn(response)
  \/ Dispatch
  \/ \E confirm \in Answers : Confirm(confirm)
  \/ \E choice \in Choices : Choose(choice)
  \/ Handle

SpecMain == InitMain /\ [][NextMain]_vars

\* an exception raised in the with block reaches its handler
FairSpecMain == SpecMain /\ WF_vars(Handle)

----------------------------------------------------------------------------
(* Properties *)

is_selection_call == call.op \in {"select", "delete"}

\* the three outcomes of a call made without force
NotFound(res) ==
  /\ ~res.success /\ ~res.needs_confirmation
  /\ res.similar_courses = <<>> /\ res.course_to_confirm = None

ConfirmOne(res) ==
  /\ ~res.success /\ res.needs_confirmation
  /\ res.similar_courses = <<>> /\ res.course_to_confirm # None

ChooseMany(res) ==
  /\ ~res.success /\ ~res.needs_confirmation
  /\ res.similar_courses # <<>> /\ res.course_to_confirm = None

\* res is the outcome that the number of matches determines, and no other
ByCardinality(res, matches) ==
  /\ Len(matches) = 0 =>
       NotFound(res) /\ ~ConfirmOne(res) /\ ~ChooseMany(res)
  /\ Len(matches) = 1 =>
       ConfirmOne(res) /\ res.course_to_confirm = matches[1]
       /\ ~NotFound(res) /\ ~ChooseMany(res)
  /\ Len(matches) > 1 =>
       ChooseMany(res) /\ res.similar_courses = matches
       /\ ~NotFound(res) /\ ~ConfirmOne(res)

\* the pools, as lists in iteration order, that the last call may have
\* searched: the catalog keys for select; for delete the selected courses in
\* the order the call iterated, in any order when the call did not iterate
pools_searched ==
  IF call.op = "select" THEN {course_keys}
  ELSE IF call.course_name \in call.pre THEN iteration_orders(call.pre)
  ELSE {call.order}

\* C1: whatever select and delete calls were made, with whatever names and
\* force values, every selected course is a key of the catalog.
C1_SelectedAreCatalogKeys == \A c \in selected_courses : in_courses(c)

\* a forced call with a name outside the catalog was made on a non-empty set
C1_Witness ==
  /\ is_selection_call /\ call.force /\ ~in_courses(call.course_name)
  /\ selected_courses # {}

\* C2 as stated: select(c, force) followed at once by delete(c, force)
\* leaves the selection set as it was before the select, for every c and
\* every selection set.
C2_SelectThenDeleteRestores ==
  [][(/\ call.op = "select" /\ call.force
      /\ call'.op = "delete" /\ call'.force
      /\ call'.course_name = call.course_name)
     => selected_courses' = call.pre]_vars

\* C2 amended: select(c, force) followed at once by delete(c, force)
\* restores the selection set S of before the select when c was not in S;
\* when c was in S already, the select changes nothing and the delete
\* leaves S without c.
C2_SelectThenDeleteRestoresUnselected ==
  [][(/\ call.op = "select" /\ call.force
      /\ call'.op = "delete" /\ call'.force
      /\ call'.course_name = call.course_name)
     => /\ call.course_name \notin call.pre => selected_courses' = call.pre
        /\ call.course_name \in call.pre =>
             selected_courses' = call.pre \ {call.course_name}]_vars

\* a forced select has just added a course to a non-empty selection set:
\* the state the forced delete of that course is made in
C2_Witness ==
  /\ call.op = "select" /\ call.force /\ result.success
  /\ call.course_name \notin call.pre /\ call.pre # {}
  /\ selected_courses = call.pre \cup {call.course_name}

\* C3: when select(c, force) has succeeded, the same call made again
\* returns success = False with the already-selected message and leaves the
\* selection set as the first call left it.
C3_SecondSelectIsRefused ==
  [][(/\ call.op = "select" /\ call.force /\ result.success
      /\ call'.op = "select" /\ call'.force
      /\ call'.course_name = call.course_name)
     => /\ ~result'.success
        /\ result'.message = Msg("already selected", call.course_name, <<>>)
        /\ selected_courses' = selected_courses]_vars

\* a forced select of a selected course was refused
C3_Witness ==
  /\ call.op = "select" /\ call.force /\ call.course_name \in call.pre
  /\ result.message.template = "already selected"
  /\ selected_courses = call.pre

\* C4 as stated: select of the two-character abbreviation GaoShu, without
\* force, asks to confirm GaoDengShuXue.
C4_AbbreviationIsConfirmed ==
  (call.op = "select" /\ ~call.force /\ call.course_name = GaoShu)
  => /\ in_courses(GaoDengShuXue) /\ ~in_courses(GaoShu)
     /\ result.needs_confirmation
     /\ result.course_to_confirm = GaoDengShuXue

\* C4 amended: the catalog holds GaoDengShuXue and not GaoShu, and select
\* of GaoShu without force returns the not-found result: GaoShu is no
\* contiguous part of GaoDengShuXue or of any other catalog key.
C4_AbbreviationIsNotFound ==
  (call.op = "select" /\ ~call.force /\ call.course_name = GaoShu)
  => /\ in_courses(GaoDengShuXue) /\ ~in_courses(GaoShu)
     /\ NotFound(result)
     /\ result.message = Msg("select: not found", GaoShu, <<>>)

C4_Witness ==
  /\ call.op = "select" /\ ~call.force /\ call.course_name = GaoShu
  /\ result.message.template = "select: not found"

\* C5: a call without force returns the one outcome that the number of
\* matches of find_similar_courses on its pool determines: none, not found;
\* one, that match to confirm; several, the matches in the order found.
C5_OutcomeFollowsMatchCount ==
  (is_selection_call /\ ~call.force)
  => \A pool \in pools_searched :
       ByCardinality(result, find_similar_courses(call.course_name, pool))

\* a delete without force found several selected courses
C5_Witness ==
  /\ call.op = "delete" /\ ~call.force
  /\ Len(result.similar_courses) > 1

\* C6: a select or delete made without force leaves the selection set as
\* it was; the set differs from what it was before the last call only when
\* that call was a select or delete made with force.
C6_UnforcedCallsChangeNothing ==
  /\ (is_selection_call /\ ~call.force) => selected_courses = call.pre
  /\ (call.op # "init" /\ selected_courses # call.pre)
       => (is_selection_call /\ call.force)

\* a select without force asked to confirm a course that is not selected
C6_Witness ==
  /\ call.op = "select" /\ ~call.force /\ result.needs_confirmation
  /\ result.course_to_confirm \notin selected_courses
  /\ selected_courses # {}

\* C7 as stated: a forced select of a name that is no catalog key returns
\* the not-found result, with no confirmation and no candidates, and leaves
\* the selection set as it was.
C7_ForcedUnknownIsNotFound ==
  (call.op = "select" /\ call.force /\ ~in_courses(call.course_name))
  => /\ NotFound(result)
     /\ result.message = Msg("select: not found", call.course_name, <<>>)
     /\ selected_courses = call.pre

\* C7 amended: a forced select of a name that is no catalog key leaves the
\* selection set as it was and returns success = False; the rest of the
\* result is that of the call without force: not found when no catalog key
\* matches, a confirmation request when one does, the candidates when
\* several do.
C7_ForcedUnknownIsDisambiguated ==
  (call.op = "select" /\ call.force /\ ~in_courses(call.course_name))
  => /\ selected_courses = call.pre
     /\ ~result.success
     /\ ByCardinality(result,
                      find_similar_courses(call.course_name, course_keys))
     /\ NotFound(result) =>
          result.message = Msg("select: not found", call.course_name, <<>>)

\* a forced select of a name that is no catalog key returned candidates
C7_Witness ==
  /\ call.op = "select" /\ call.force /\ ~in_courses(call.course_name)
  /\ Len(result.similar_courses) > 1

\* C8: a forced delete of a selected course removes that course and no
\* other and returns success = True; a forced delete of any other name
\* returns success = False and leaves the selection set as it was.
C8_ForcedDelete ==
  (call.op = "delete" /\ call.force)
  => IF call.course_name \in call.pre
     THEN selected_courses = call.pre \ {call.course_name} /\ result.success
     ELSE selected_courses = call.pre /\ ~result.success

\* a forced delete removed one of several selected courses
C8_Witness ==
  /\ call.op = "delete" /\ call.force /\ call.course_name \in call.pre
  /\ result.success /\ selected_courses # {}
  /\ selected_courses = call.pre \ {call.course_name}

\* C9: the history is never longer than the capacity; once more turns than
\* the capacity were appended it holds exactly the capacity's number of
\* turns, the latest ones, in the order they were appended.
C9_HistoryKeepsLatest ==
  /\ Len(history) <= max_history
  /\ Len(appended) > max_history =>
       /\ Len(history) = max_history
       /\ history = SubSeq(appended, Len(appended) - max_history + 1,
                           Len(appended))

\* at the default capacity, two turns were evicted and the turns kept differ
C9_Witness ==
  /\ max_history = DefaultMaxHistory
  /\ Len(appended) = max_history + 2
  /\ history[1] # appended[1] /\ history[1] # history[2]

\* C10: a parse whose response is not JSON raises the parse error, returns
\* no intent, and leaves the selection set and the last mentioned course
\* as they were.
C10_BadResponseChangesNothing ==
  [][(call'.op = "parse" /\ call'.response = NotJson)
     => /\ raised' = "APIError: cannot parse response"
        /\ parsed' = no_intent
        /\ selected_courses' = selected_courses
        /\ last_mentioned_course' = last_mentioned_course]_vars

\* a parse failed on a response that is not JSON, with courses selected and
\* a course mentioned before
C10_Witness ==
  /\ call.op = "parse" /\ call.response = NotJson
  /\ raised = "APIError: cannot parse response"
  /\ selected_courses # {} /\ last_mentioned_course # None

\* the members of a list
members(xs) == {xs[i] : i \in DOMAIN xs}

\* a occurs in b as a contiguous part
part_of(a, b) == \E i, j \in 0..Len(b) : i <= j /\ SubSeq(b, i + 1, j) = a

\* the whitespace-delimited tokens of s
tokens(s) ==
  {SubSeq(s, p[1], p[2]) :
     p \in {q \in (1..Len(s)) \X (1..Len(s)) :
              /\ q[1] <= q[2]
              /\ \A k \in q[1]..q[2] : ~is_space(s[k])
              /\ q[1] = 1 \/ is_space(s[q[1] - 1])
              /\ q[2] = Len(s) \/ is_space(s[q[2] + 1])}}

\* the rule of the fuzzy match for query q and pool member m
qualifies(q, m) ==
  \/ part_of(lower(q), lower(m))
  \/ part_of(lower(m), lower(q))
  \/ \E t \in tokens(lower(q)) : part_of(t, lower(m))

\* xs holds no element twice and its elements come in the order of ys
in_order_of(xs, ys) ==
  /\ \A i, j \in DOMAIN xs : xs[i] = xs[j] => i = j
  /\ \A i, j \in DOMAIN xs :
       i < j => \E k, l \in DOMAIN ys : k < l /\ ys[k] = xs[i] /\ ys[l] = xs[j]

\* C13: find_similar_courses called with a name that is a member of the
\* pool returns the list of that name alone, whatever other members
\* contain the name or are contained in it.
C13_ExactMatchWins ==
  (call.op = "find_similar_courses" /\ call.course_name \in members(find_pool))
  => found = <<call.course_name>>

\* the name is a member, and another member contains it
C13_Witness ==
  /\ call.op = "find_similar_courses"
  /\ call.course_name \in members(find_pool)
  /\ \E m \in members(find_pool) :
       m # call.course_name /\ part_of(call.course_name, m)
  /\ found = <<call.course_name>>

\* C14: called with a name that is no member of the pool,
\* find_similar_courses returns the members that the lowercase name is part
\* of, or that in lowercase are part of it, or that hold one of its
\* whitespace-delimited tokens: each once, in the order of the pool, and no
\* other string; the pool is the one the call was given.
C14_FuzzyMatchIsTheRule ==
  (call.op = "find_similar_courses" /\ call.course_name \notin members(find_pool))
  => /\ members(found) =
          {m \in members(find_pool) : qualifies(call.course_name, m)}
     /\ in_order_of(found, find_pool)
     /\ find_pool = call.order

\* two members were found for "x a": one is part of the query, and the
\* other only holds the token "a"
C14_Witness ==
  /\ call.op = "find_similar_courses" /\ call.course_name = StrXspaceA
  /\ Len(found) = 2 /\ StrBa \in members(found)
  /\ ~part_of(StrBa, StrXspaceA) /\ ~part_of(StrXspaceA, StrBa)

\* the position of a course in the catalog
catalog_position(course) == CHOOSE i \in DOMAIN courses : courses[i] = course

\* the number of tags a course shares with the interests
shared_tags(course, interests) ==
  Cardinality({t \in members(course.tags) : t \in members(interests)})

\* C15: query_courses returns exactly the courses whose type is in the
\* filters (all of them if the filters are empty or absent), each once;
\* without interests in catalog order, with interests by descending number
\* of shared tags, ties in catalog order.
C15_QueryFiltersAndRanks ==
  call.op = "query_courses" =>
    LET all == call.filters \in {NoList, <<>>}
        ranked == call.interests \notin {NoList, <<>>}
        wanted == {c \in members(courses) :
                     all \/ c.type \in members(call.filters)}
    IN  /\ members(results) = wanted
        /\ Len(results) = Cardinality(wanted)
        /\ \A i, j \in DOMAIN results :
             i < j =>
               LET a == results[i]
                   b == results[j]
               IN  IF ranked
                   THEN \/ shared_tags(a, call.interests)
                             > shared_tags(b, call.interests)
                        \/ /\ shared_tags(a, call.interests)
                                = shared_tags(b, call.interests)
                           /\ catalog_position(a) < catalog_position(b)
                   ELSE catalog_position(a) < catalog_position(b)

\* a filtered, ranked query: courses sharing 2, 1 and 0 tags are returned
\* and the first result is not the first course of the catalog
C15_Witness ==
  /\ call.op = "query_courses"
  /\ call.filters = <<BiXiu>> /\ call.interests = <<ZhuanYeHeXin, AnQuan>>
  /\ {shared_tags(results[i], call.interests) : i \in DOMAIN results} = {0, 1, 2}
  /\ results[1].name = XinXiAnQuanJiChu
  /\ Len(results) < Len(courses)

\* C17: the student turn is appended before the completion call and stays:
\* after a parse that raised, the newest history entry is the student turn
\* of that call; after a parse that returned, the newest two entries are
\* that student turn and the assistant turn with the message of the intent.
C17_StudentTurnStays ==
  call.op = "parse" =>
    LET n == Len(history)
    IN  IF raised # "none"
        THEN n >= 1 /\ history[n] = Turn("user", call.user_input)
        ELSE /\ n >= 2
             /\ history[n - 1] = Turn("user", call.user_input)
             /\ history[n] = Turn("assistant", parsed.context.message)

\* a parse raised on a failed completion call after a parse of another
\* student text had returned: the history is that text, its answer, and the
\* new student turn
C17_Witness ==
  /\ call.op = "parse" /\ call.response.kind = "raise"
  /\ raised = "APIError: completion failed"
  /\ Len(history) = 3
  /\ history[1].role = "user" /\ history[1].content # call.user_input
  /\ history[2].role = "assistant"
  /\ history[3] = Turn("user", call.user_input)

\* C20: a call without force that names an exact pool member asks to
\* confirm that name and nothing else: select of a catalog key (selected
\* already or not) and delete of a selected course return
\* needs_confirmation, course_to_confirm = the name, no success and no
\* candidates, whatever other pool members overlap with the name.
C20_ExactNameIsConfirmed ==
  (/\ ~call.force
   /\ \/ call.op = "select" /\ in_courses(call.course_name)
      \/ call.op = "delete" /\ call.course_name \in call.pre)
  => /\ result.needs_confirmation
     /\ result.course_to_confirm = call.course_name
     /\ ~result.success
     /\ result.similar_courses = <<>>

\* a select without force of a course that is selected already, while a
\* course whose name contains that name is in the catalog and selected too
C20_Witness ==
  /\ call.op = "select" /\ ~call.force
  /\ call.course_name = XinXiAnQuan
  /\ {XinXiAnQuan, XinXiAnQuanJiChu} \subseteq selected_courses
  /\ part_of(XinXiAnQuan, XinXiAnQuanJiChu)
  /\ result.needs_confirmation /\ result.course_to_confirm = XinXiAnQuan

\* the completion of the turn is a JSON object
response_is_object ==
  /\ turn.response.kind = "text"
  /\ turn.response.json
  /\ turn.response.shape = "object"

\* C11 as stated: when the completion is a JSON object, whatever intent
\* fields it omits, parse returns it and neither parse nor the dispatcher
\* raises for the absent field; a turn fails in parse only on a failed
\* completion call or a text that is not JSON.
C11_AbsentFieldsAreTolerated ==
  /\ (response_is_object /\ pc # "parse")
       => /\ parsed = turn.response.value
          /\ raised \notin {"KeyError: context", "KeyError: message",
                            "KeyError: action"}
  /\ (call.op = "parse" /\ raised # "none" /\ raised # "ValueError")
       => (turn.response.kind = "raise" \/ turn.response = NotJson)

\* C12: an exception raised in a turn, by parse, by the dispatcher or at a
\* prompt, is taken by session_context and the loop reads the next line;
\* the loop is never left by an exception, and it ends only when the line
\* read at the main prompt is the exit keyword.
C12_SessionSurvivesBadTurns ==
  /\ [](pc # "crashed")
  /\ [][pc' = "exited" => (pc = "input" /\ turn'.user_input = TuiChu)]_vars
  /\ [][(pc = "input" /\ turn'.user_input = TuiChu) => pc' = "exited"]_vars
  /\ (pc = "except") ~> (pc = "input")

\* the loop is back at the main prompt after the dispatcher raised on an
\* intent without action, with the selection of earlier turns kept
C12_Witness ==
  /\ pc = "input" /\ raised = "KeyError: action"
  /\ selected_courses # {}

\* C16: last_mentioned_course changes only in a parse that returns an
\* intent with a non-empty course_name, and then to that course_name,
\* catalog key or not; no other step changes it, and once set it is never
\* None again.
C16_LastMentionedFollowsParse ==
  [][/\ last_mentioned_course' # last_mentioned_course
          => /\ pc = "parse" /\ raised' = "none"
             /\ "course_name" \in DOMAIN parsed'
             /\ last_mentioned_course' = parsed'.course_name
             /\ parsed'.course_name \notin {None, <<>>}
     /\ (/\ pc = "parse" /\ raised' = "none"
         /\ "course_name" \in DOMAIN parsed'
         /\ parsed'.course_name \notin {None, <<>>})
          => last_mentioned_course' = parsed'.course_name
     /\ last_mentioned_course # None => last_mentioned_course' # None]_vars

\* the last mentioned course is a name that is no catalog key; courses
\* were selected by follow-up calls since, and the turn that just ended
\* parsed an intent with a null course_name
C16_Witness ==
  /\ last_mentioned_course = XinXi /\ ~in_courses(XinXi)
  /\ selected_courses # {}
  /\ pc = "input" /\ call.op = "parse" /\ raised = "none"
  /\ parsed.action = "delete" /\ parsed.course_name = None

\* the prompts of the dispatcher
ConfirmPrompts == {"select: confirm", "delete: confirm"}
ChoicePrompts == {"query: choice", "select: choice", "delete: choice"}

\* the courses by which the selection set differs from the start of the turn
changed_in_turn ==
  (selected_courses \ turn.pre) \cup (turn.pre \ selected_courses)

\* the answer of the turn is y, or a number from 1 to the length of the
\* list offered
accepted_in_turn ==
  \/ turn.prompt \in ConfirmPrompts /\ turn.answer \in {<<121>>, <<89>>}
  \/ /\ turn.prompt \in ChoicePrompts
     /\ \E n \in 1..Len(turn.offered) :
          /\ Len(turn.answer) = (IF n < 10 THEN 1 ELSE 2)
          /\ \A i \in DOMAIN turn.answer : decimal_value(turn.answer[i]) >= 0
          /\ n = IF n < 10 THEN decimal_value(turn.answer[1])
                 ELSE 10 * decimal_value(turn.answer[1])
                        + decimal_value(turn.answer[2])

\* C18: within one turn of the dispatcher the selection set changes by at
\* most one course, a course that was offered, and only after the user
\* answered y to the confirmation or entered a number from 1 to the length
\* of the list offered; every other turn leaves the set as it was.
C18_OneChangePerAcceptedTurn ==
  /\ Cardinality(changed_in_turn) <= 1
  /\ changed_in_turn # {} =>
       /\ accepted_in_turn
       /\ changed_in_turn \subseteq members(turn.offered)

\* a turn removed the course chosen by number from two candidates
C18_Witness ==
  /\ turn.prompt = "delete: choice" /\ Len(turn.offered) = 2
  /\ turn.answer = <<50>>
  /\ changed_in_turn = {turn.offered[2]}
  /\ turn.offered[2] \notin selected_courses

\* the courses a returned dict offers
offered_by(res) ==
  members(res.similar_courses)
    \cup (IF res.needs_confirmation THEN {res.course_to_confirm} ELSE {})

\* C19: a call without force offers only catalog keys (select) or selected
\* courses (delete); so the follow-up delete with force succeeds and
\* removes the course, and the follow-up select with force selects the
\* course or reports that it is selected already, with no search (a
\* follow-up is the call with force of a turn whose prompt was answered).
C19_OfferedCoursesResolve ==
  /\ (call.op = "select" /\ ~call.force)
       => offered_by(result) \subseteq members(course_keys)
  /\ (call.op = "delete" /\ ~call.force)
       => offered_by(result) \subseteq selected_courses
  /\ (call.op = "delete" /\ call.force /\ turn.answer # None)
       => /\ call.course_name \in members(turn.offered)
          /\ result.success
          /\ call.course_name \in call.pre
          /\ selected_courses = call.pre \ {call.course_name}
  /\ (call.op = "select" /\ call.force /\ turn.answer # None)
       => /\ call.course_name \in members(turn.offered)
          /\ offered_by(result) = {}
          /\ IF call.course_name \in call.pre
             THEN /\ ~result.success /\ selected_courses = call.pre
                  /\ result.message
                       = Msg("already selected", call.course_name, <<>>)
             ELSE /\ result.success
                  /\ selected_courses = call.pre \cup {call.course_name}

\* the follow-up select of a confirmed course that was selected already
\* was refused, with two or more courses selected
C19_Witness ==
  /\ call.op = "select" /\ call.force
  /\ turn.prompt = "select: confirm"
  /\ call.course_name \in call.pre
  /\ ~result.success
  /\ Cardinality(selected_courses) >= 2

====
